---- MODULE Spec2Model ----
(***************************************************************************)
(* rcache: the wire codec (src/src/codec.rs), the cache engine             *)
(* (src/src/cache.rs) and the service pipeline with its connection loop    *)
(* (src/src/service.rs).                                                   *)
(*                                                                         *)
(* Three specifications share the module:                                  *)
(*   CodecSpec   bytes are fed to CacheCodec::decode in chunks             *)
(*   EngineSpec  Cache::process is called directly, work runs on the pool  *)
(*   ServeSpec   connections drive Log(Stat(CacheService)) over the engine *)
(***************************************************************************)
EXTENDS Integers, Sequences, FiniteSets, TLC

VARIABLES
    frames,     \* codec: the (request id, Message) items whose encodings form the byte stream
    fed,        \* codec: number of bytes of the stream appended to the decode buffer so far
    buf,        \* codec: the decode buffer (BytesMut)
    decoded,    \* codec: results of the decode calls that returned Ok(Some(..)) or Err
    lastCall,   \* codec: the buffer before the most recent decode call and that call's result
    pool_size,  \* engine: number of worker threads of the CpuPool
    data,       \* engine: the key -> (type_id, bytes) map behind the RwLock
    lock,       \* engine: the RwLock: its writer (0 = none), its readers, whether it is poisoned
    jobs,       \* engine: the units of work given to the pool, in the order of the process calls
    chan,       \* engine: the oneshot channel of each unit of work
    wlog,       \* engine: the units of work in the order they acquired exclusive access
    inq,        \* connection: the frames received that the reader has not yet taken, each with what decode yields for it
    cur,        \* connection: the request whose deferred response the connection loop awaits
    out,        \* connection: the (request id, Message) items handed to the writer, in order
    open,       \* connection: whether the connection's task is still running
    total_requests, \* Stats: the shared request counter
    calls,      \* connection: the service calls made so far and their outcomes, in order
    flushed,    \* connection: how many of the items handed to the writer were written to the socket
    failed      \* connection: the frame on which decode failed, if any

codecVars == <<frames, fed, buf, decoded, lastCall>>
engineVars == <<pool_size, data, lock, jobs, chan, wlog>>
serveVars == <<inq, cur, out, open, total_requests, calls, flushed, failed>>
vars == <<codecVars, engineVars, serveVars>>

----------------------------------------------------------------------------
(* Bounds of the model *)

MaxFrames == 2
MaxPoolSize == 2
MaxOps == 3
MaxFairOps == 2
MaxTail == 5
NumConns == 2
MaxReqs == 2

----------------------------------------------------------------------------
(* Message model (message.rs is not part of the sources at hand) *)

OpGet == 0
OpSet == 1
OpDel == 2
OpStats == 3
Ops == {OpGet, OpSet, OpDel, OpStats}

CodeReq == 0
CodeOk == 1
Codes == {CodeOk}

None == <<>>
Some(x) == <<x>>

\* message::payload(type_id, data)
payload(type_id, bytes) == [type_id |-> type_id, data |-> bytes]

\* message::request(op, key, payload)
request(op, key, p) ==
    [shape |-> "Request", op |-> op, code |-> CodeReq, key |-> key, payload |-> p]

\* message::response(op, code, payload)
response(op, code, p) ==
    [shape |-> "Response", op |-> op, code |-> code, key |-> <<>>, payload |-> p]

\* Message::key(): only a Request carries a key
MsgKey(m) == IF m.shape = "Request" THEN Some(m.key) ELSE None

\* Message::payload().map(|p| p.data())
MsgPayloadData(m) == IF m.payload = None THEN None ELSE Some(m.payload[1].data)

\* Message::type_id()
MsgTypeId(m) == IF m.payload = None THEN None ELSE Some(m.payload[1].type_id)

\* Option::unwrap_or
UnwrapOr(opt, dflt) == IF opt = None THEN dflt ELSE opt[1]

----------------------------------------------------------------------------
(* Wire codec: src/src/codec.rs *)

HEADER_LEN == 8 + 1 + 1 + 8 + 4

RECURSIVE PutBE(_, _)
\* put_u64::<BigEndian> / put_u32::<BigEndian>: n in w bytes, most significant first
PutBE(n, w) == IF w = 0 THEN <<>> ELSE Append(PutBE(n \div 256, w - 1), n % 256)

RECURSIVE GetBE(_)
\* get_u64::<BigEndian> / get_u32::<BigEndian> over the given bytes
GetBE(bytes) ==
    IF bytes = <<>> THEN 0
    ELSE GetBE(SubSeq(bytes, 1, Len(bytes) - 1)) * 256 + bytes[Len(bytes)]

\* CacheCodec::encode: the bytes appended to the buffer for (request_id, msg)
Encode(request_id, msg) ==
    LET key == UnwrapOr(MsgKey(msg), <<>>)
        payload_bytes == UnwrapOr(MsgPayloadData(msg), <<>>)
        type_id == UnwrapOr(MsgTypeId(msg), 0)
        payload_len == Len(payload_bytes)
    IN  PutBE(request_id, 8) \o <<msg.code>> \o <<msg.op>>
        \o PutBE(payload_len, 8) \o PutBE(Len(key), 4) \o key
        \o (IF payload_len > 0 THEN PutBE(type_id, 4) \o payload_bytes ELSE <<>>)

\* Op::try_from(u8) / Code::try_from(u8)
OpTryFrom(b) == IF b \in Ops THEN Some(b) ELSE None
CodeTryFrom(b) == IF b \in Codes THEN Some(b) ELSE None

RECURSIVE AddBE(_, _, _)
\* the sum of two equally long big-endian byte strings and a carry: one byte
\* longer than the operands, its first byte the carry out
AddBE(x, y, carry) ==
    IF x = <<>> THEN <<carry>>
    ELSE LET s == x[Len(x)] + y[Len(y)] + carry
         IN  Append(AddBE(SubSeq(x, 1, Len(x) - 1), SubSeq(y, 1, Len(y) - 1), s \div 256),
                    s % 256)

\* a usize (64 bits) is held as its 8 big-endian bytes
Usize(n) == PutBE(n, 8)

\* `as usize` on a u32: zero extension
ZeroExt(u32) == <<0, 0, 0, 0>> \o u32

\* the usize is below 2^24, so that it can be compared with a buffer length
Fits(u) == SubSeq(u, 1, 5) = <<0, 0, 0, 0, 0>>

\* usize + usize: the wrapped sum, and whether the addition overflowed
UsizeAdd(a, u) ==
    LET s == AddBE(a.val, u, 0)
    IN  [val |-> Tail(s), overflow |-> a.overflow \/ s[1] # 0]

\* a total length that counts the type_id field whether or not there is a payload
DecodeMsgLenWithTypeId(payload_len, key_len) ==
    UsizeAdd(UsizeAdd(UsizeAdd([val |-> Usize(HEADER_LEN), overflow |-> FALSE],
                               payload_len), key_len), Usize(4))

\* the total frame length decode computes from the header fields:
\* HEADER_LEN + payload_len + key_len + type_id_len in usize arithmetic
DecodeMsgLen(payload_len, key_len) ==
    LET type_id_len == IF payload_len = Usize(0) THEN 0 ELSE 4
    IN  UsizeAdd(UsizeAdd(UsizeAdd([val |-> Usize(HEADER_LEN), overflow |-> FALSE],
                                   payload_len), key_len), Usize(type_id_len))

\* overflow checks are compiled in (debug) or the sum wraps (release)
Builds == {"debug", "release"}

\* CacheCodec::decode on buffer b in the given build: the result and the
\* buffer it leaves. "panic" is a failed bounds assertion of split_to or of
\* the cursor reads, or an arithmetic overflow in a debug build.
DecodeIn(build, b) ==
    IF Len(b) < HEADER_LEN THEN [res |-> "none", item |-> None, buf |-> b]
    ELSE
      LET payload_len == SubSeq(b, 11, 18)
          key_len == ZeroExt(SubSeq(b, 19, 22))
          sum == DecodeMsgLen(payload_len, key_len)
      IN  IF sum.overflow /\ build = "debug"
          THEN [res |-> "panic", item |-> None, buf |-> b]
          ELSE IF ~Fits(sum.val) THEN [res |-> "none", item |-> None, buf |-> b]
          ELSE IF Len(b) < GetBE(sum.val) THEN [res |-> "none", item |-> None, buf |-> b]
          ELSE
            LET msg_len == GetBE(sum.val)
                msg == SubSeq(b, 1, msg_len)
                rest == SubSeq(b, msg_len + 1, Len(b))
                readable == IF msg_len < HEADER_LEN THEN FALSE
                            ELSE IF ~Fits(key_len) THEN FALSE
                            ELSE IF msg_len - HEADER_LEN < GetBE(key_len) THEN FALSE
                            ELSE payload_len = Usize(0)
                                 \/ msg_len - HEADER_LEN - GetBE(key_len) >= 4
            IN  IF ~readable THEN [res |-> "panic", item |-> None, buf |-> rest]
                ELSE
                  LET request_id == GetBE(SubSeq(msg, 1, 8))
                      code == msg[9]
                      op == msg[10]
                      klen == GetBE(key_len)
                      key == SubSeq(msg, HEADER_LEN + 1, HEADER_LEN + klen)
                      p == IF payload_len # Usize(0)
                           THEN Some(payload(
                                  GetBE(SubSeq(msg, HEADER_LEN + klen + 1, HEADER_LEN + klen + 4)),
                                  SubSeq(msg, HEADER_LEN + klen + 5, msg_len)))
                           ELSE None
                  IN  IF OpTryFrom(op) = None \/ (code # 0 /\ CodeTryFrom(code) = None)
                      THEN [res |-> "err", item |-> None, buf |-> rest]
                      ELSE [res |-> "some",
                            item |-> Some([id |-> request_id,
                                           msg |-> IF code = 0 THEN request(op, key, p)
                                                   ELSE response(op, code, p)]),
                            buf |-> rest]

\* decode where the length sum does not overflow: the builds agree
Decode(b) == DecodeIn("release", b)

----------------------------------------------------------------------------
(* CodecSpec: a stream of encoded frames is appended to the decode buffer *)
(* in chunks, decode being called after each chunk and again after each   *)
(* frame it returns (as the framed reader does).                          *)

CodecIds == {1, 300}
CodecKeys == {<<7>>}
CodecPayloads == {None, Some(payload(3, <<>>)), Some(payload(260, <<9, 8>>))}
CodecMsgs ==
    {request(op, k, p) : op \in Ops, k \in CodecKeys, p \in CodecPayloads}
    \cup {response(op, c, p) : op \in Ops, c \in Codes, p \in CodecPayloads}
CodecItems == {[id |-> r, msg |-> m] : r \in CodecIds, m \in CodecMsgs}
\* the frames that may follow the first one in the stream
CodecTailItems ==
    {[id |-> 1, msg |-> request(OpGet, <<7>>, None)],
     [id |-> 300, msg |-> request(OpSet, <<7>>, Some(payload(260, <<9, 8>>)))],
     [id |-> 1, msg |-> response(OpGet, CodeOk, Some(payload(3, <<>>)))]}

RECURSIVE Wire(_)
\* the byte stream: the encodings of the items, concatenated
Wire(items) ==
    IF items = <<>> THEN <<>>
    ELSE Encode(items[1].id, items[1].msg) \o Wire(Tail(items))

\* the number of bytes up to the end of the frame that byte fed+1 belongs to
RECURSIVE FrameEnd(_, _)
FrameEnd(items, n) ==
    IF items = <<>> THEN 0
    ELSE LET l == Len(Encode(items[1].id, items[1].msg))
         IN  IF n < l THEN l ELSE l + FrameEnd(Tail(items), n - l)

CodecStart ==
    /\ frames \in {<<first>> \o tail :
                    first \in CodecItems,
                    tail \in UNION {[1..n -> CodecTailItems] : n \in 0..(MaxFrames - 1)}}
    /\ fed = 0
    /\ buf = <<>>
    /\ decoded = <<>>
    /\ lastCall = [before |-> <<>>, res |-> "init", item |-> None]

\* the codec variables of the specifications that do not exercise the byte stream
CodecIdle ==
    /\ frames = <<>>
    /\ fed = 0
    /\ buf = <<>>
    /\ decoded = <<>>
    /\ lastCall = [before |-> <<>>, res |-> "init", item |-> None]

\* one call of decode on the buffer `b`
CallDecode(b) ==
    \E build \in Builds :
        LET d == DecodeIn(build, b)
        IN  /\ buf' = d.buf
            /\ lastCall' = [before |-> b, res |-> d.res, item |-> d.item]
            /\ decoded' = IF d.res = "some" THEN decoded \o d.item ELSE decoded

\* n more bytes of the stream arrive, then decode is called
Feed(n) ==
    LET wire == Wire(frames)
    IN  /\ n > 0
        /\ fed + n <= Len(wire)
        /\ lastCall.res # "err"
        /\ fed' = fed + n
        /\ CallDecode(buf \o SubSeq(wire, fed + 1, fed + n))
        /\ UNCHANGED <<frames, engineVars, serveVars>>

FeedByte == Feed(1)
FeedFrame == Feed(FrameEnd(frames, fed) - fed)
FeedAll == Feed(Len(Wire(frames)) - fed)

\* the reader calls decode again after a frame was returned
DecodeAgain ==
    /\ lastCall.res = "some"
    /\ CallDecode(buf)
    /\ UNCHANGED <<frames, fed, engineVars, serveVars>>

\* the payload_len and key_len fields a peer may put into a header: small
\* values, and values near the top of the 64-bit and of the 32-bit range
RawPayloadLens ==
    {Usize(0), Usize(1),
     <<0, 0, 0, 1, 0, 0, 0, 0>>,
     <<255, 255, 255, 255, 255, 255, 255, 229>>,
     <<255, 255, 255, 255, 255, 255, 255, 230>>,
     <<255, 255, 255, 255, 255, 255, 255, 231>>,
     <<255, 255, 255, 255, 255, 255, 255, 255>>}
RawKeyLens ==
    {PutBE(0, 4), PutBE(1, 4), <<255, 255, 255, 254>>, <<255, 255, 255, 255>>}
RawHeaders ==
    {PutBE(1, 8) \o <<CodeReq, OpGet>> \o payload_len \o key_len :
        payload_len \in RawPayloadLens, key_len \in RawKeyLens}

\* a peer sends a 22-byte header, then decode is called
RawHeader(h) ==
    /\ lastCall.res = "init"
    /\ fed' = Len(h)
    /\ CallDecode(h)
    /\ UNCHANGED <<frames, engineVars, serveVars>>

\* one more byte arrives behind the header, then decode is called
RawByte(x) ==
    /\ lastCall.res = "none"
    /\ fed < HEADER_LEN + MaxTail
    /\ fed' = fed + 1
    /\ CallDecode(buf \o <<x>>)
    /\ UNCHANGED <<frames, engineVars, serveVars>>

----------------------------------------------------------------------------
(* Cache engine: src/src/cache.rs *)

EngineKeys == {<<1>>, <<2>>}
EnginePayloads == {payload(5, <<50>>), payload(6, <<60>>)}

\* Message::consume(): the key and the (type_id, bytes) entry of a Set request
Consume(m) == <<m.key, <<m.payload[1].type_id, m.payload[1].data>>>>

\* MessageBuilder::default().set_op(Op::Set).finish()
SetReply == response(OpSet, CodeOk, None)

\* MessageBuilder::new() with set_type_id, set_payload, set_op(Op::Get)
GetHitReply(entry) == response(OpGet, CodeOk, Some(payload(entry[1], entry[2])))

\* MessageBuilder::default() with set_op(Op::Get), set_key(key)
GetMissReply(key) == [response(OpGet, CodeOk, None) EXCEPT !.key = key]

\* Cache::new()
EngineStart ==
    /\ pool_size \in 1..MaxPoolSize
    /\ data = [k \in EngineKeys |-> None]
    /\ lock = [writer |-> 0, readers |-> {}, poisoned |-> FALSE]
    /\ jobs = <<>>
    /\ chan = <<>>
    /\ wlog = <<>>

JobIds == 1..Len(jobs)

\* the oneshot sender of unit of work j was used or dropped
Settled(j) == chan[j].tx # "held"

\* units of work a pool thread is executing
Running == {j \in JobIds : jobs[j].pc \notin {"queued", "done", "panicked", "aborted"}}

\* the unit of work at the head of the pool's queue
QueueHead(j) ==
    /\ jobs[j].pc = "queued"
    /\ \A i \in JobIds : jobs[i].pc = "queued" => j <= i

\* a pool thread is free to take a unit of work
WorkerFree == Cardinality(Running) < pool_size

\* exclusive access granted while readers still hold the lock
CanWriteIgnoresReaders == lock.writer = 0

\* RwLock::write(): exclusive access is granted
CanWrite == lock.writer = 0 /\ lock.readers = {}

\* RwLock::read(): shared access is granted
CanRead == lock.writer = 0

\* an insert that keeps the entry a key already has
InsertIfAbsent(map, key, entry) ==
    IF map[key] = None THEN [map EXCEPT ![key] = Some(entry)] ELSE map

\* HashMap::insert(key, payload) on the map
Insert(map, key, entry) == [map EXCEPT ![key] = Some(entry)]

\* the message the Get arm sends for the map and key
GetResult(map, key) ==
    IF map[key] # None THEN GetHitReply(map[key][1]) ELSE GetMissReply(key)

\* the message the Del and Stats arms send
PassThroughResult(m) == m

\* oneshot Sender::send(m) on the channel of unit of work j: the value is
\* delivered, or returned as Err when the receiver was dropped
Send(j, m) ==
    chan' = [chan EXCEPT ![j] =
                IF @.rx = "held"
                THEN [@ EXCEPT !.sends = @ + 1, !.val = Some(m), !.tx = "sent"]
                ELSE [@ EXCEPT !.tx = "refused"]]

\* the oneshot sender of unit of work j is dropped unused
DropSender(j) ==
    chan' = [chan EXCEPT ![j] = [@ EXCEPT !.val = None, !.tx = "dropped"]]

\* the holder of the receiving end drops it before the handle is resolved
DropReceiver(j) ==
    /\ chan[j].tx = "held"
    /\ chan[j].rx = "held"
    /\ chan' = [chan EXCEPT ![j].rx = "dropped"]
    /\ UNCHANGED <<pool_size, data, lock, jobs, wlog, codecVars, serveVars>>

SetPc(j, pc) == [jobs EXCEPT ![j].pc = pc]

\* Cache::process(message, snd): the work closure is handed to the pool
Process(m, c) ==
    /\ jobs' = Append(jobs, [msg |-> m, pc |-> "queued", conn |-> c,
                             overlap |-> \E i \in JobIds : ~Settled(i),
                             settled |-> IF m.op = OpGet
                                         THEN {i \in JobIds :
                                                 /\ chan[i].tx = "sent"
                                                 /\ jobs[i].msg.op = OpSet
                                                 /\ jobs[i].msg.key = m.key}
                                         ELSE {}])
    /\ chan' = Append(chan, [sends |-> 0, val |-> None, tx |-> "held", rx |-> "held"])
    /\ UNCHANGED <<pool_size, data, lock, wlog>>

\* a pool thread takes the next unit of work and reaches `match message.op()`
Start(j) ==
    /\ QueueHead(j)
    /\ WorkerFree
    /\ jobs' = SetPc(j, "run")
    /\ UNCHANGED <<pool_size, data, lock, chan, wlog, codecVars, serveVars>>

\* Op::Set: message.consume(), then data.write() grants exclusive access
SetLock(j) ==
    /\ jobs[j].pc = "run"
    /\ jobs[j].msg.op = OpSet
    /\ CanWrite
    /\ ~lock.poisoned
    /\ lock' = [lock EXCEPT !.writer = j]
    /\ wlog' = Append(wlog, j)
    /\ jobs' = SetPc(j, "wlock")
    /\ UNCHANGED <<pool_size, data, chan, codecVars, serveVars>>

\* Op::Set: data.write() on a poisoned lock returns Err once exclusive access
\* is free, and unwrap() panics: the closure unwinds and drops snd
SetLockPoisoned(j) ==
    /\ jobs[j].pc = "run"
    /\ jobs[j].msg.op = OpSet
    /\ CanWrite
    /\ lock.poisoned
    /\ DropSender(j)
    /\ jobs' = SetPc(j, "panicked")
    /\ UNCHANGED <<pool_size, data, lock, wlog, codecVars, serveVars>>

\* Op::Set: the closure under the write guard panics before the entry is
\* stored; unwinding drops the guard, which poisons the lock, and drops snd
SetAbort(j) ==
    /\ jobs[j].pc = "wlock"
    /\ lock' = [lock EXCEPT !.writer = 0, !.poisoned = TRUE]
    /\ DropSender(j)
    /\ jobs' = SetPc(j, "aborted")
    /\ UNCHANGED <<pool_size, data, wlog, codecVars, serveVars>>

\* Op::Set: cache.insert(key, payload) under the write guard
SetInsert(j) ==
    /\ jobs[j].pc = "wlock"
    /\ data' = Insert(data, Consume(jobs[j].msg)[1], Consume(jobs[j].msg)[2])
    /\ jobs' = SetPc(j, "inserted")
    /\ UNCHANGED <<pool_size, lock, chan, wlog, codecVars, serveVars>>

\* the write guard outlives the map closure and is never dropped
SetUnlockKeepsGuard(j) ==
    /\ jobs[j].pc = "inserted"
    /\ jobs' = SetPc(j, "unlocked")
    /\ UNCHANGED <<pool_size, data, lock, chan, wlog, codecVars, serveVars>>

\* Op::Set: the write guard is dropped at the end of the map closure
SetUnlock(j) ==
    /\ jobs[j].pc = "inserted"
    /\ lock' = [lock EXCEPT !.writer = 0]
    /\ jobs' = SetPc(j, "unlocked")
    /\ UNCHANGED <<pool_size, data, chan, wlog, codecVars, serveVars>>

\* a Set arm that sends its reply before it stores the entry
SetSendBeforeInsert(j) ==
    /\ jobs[j].pc = "run"
    /\ jobs[j].msg.op = OpSet
    /\ chan[j].tx = "held"
    /\ Send(j, SetReply)
    /\ UNCHANGED <<pool_size, data, lock, jobs, wlog, codecVars, serveVars>>

\* Op::Set: snd.send(Set reply).unwrap(): the closure panics when send
\* returns Err
SetSend(j) ==
    /\ jobs[j].pc = "unlocked"
    /\ Send(j, SetReply)
    /\ jobs' = SetPc(j, IF chan[j].rx = "held" THEN "done" ELSE "panicked")
    /\ UNCHANGED <<pool_size, data, lock, wlog, codecVars, serveVars>>

\* Op::Get: message.key().unwrap() on a message without a key panics; the
\* closure unwinds and drops snd, the pool thread survives
GetPanic(j) ==
    /\ jobs[j].pc = "run"
    /\ jobs[j].msg.op = OpGet
    /\ MsgKey(jobs[j].msg) = None
    /\ DropSender(j)
    /\ jobs' = SetPc(j, "panicked")
    /\ UNCHANGED <<pool_size, data, lock, wlog, codecVars, serveVars>>

\* Op::Get: data.read() grants shared access
GetLock(j) ==
    /\ jobs[j].pc = "run"
    /\ jobs[j].msg.op = OpGet
    /\ MsgKey(jobs[j].msg) # None
    /\ CanRead
    /\ ~lock.poisoned
    /\ lock' = [lock EXCEPT !.readers = @ \cup {j}]
    /\ jobs' = SetPc(j, "rlock")
    /\ UNCHANGED <<pool_size, data, chan, wlog, codecVars, serveVars>>

\* Op::Get: data.read() on a poisoned lock returns Err, the map closure is
\* skipped and unwrap() panics: the closure unwinds and drops snd
GetLockPoisoned(j) ==
    /\ jobs[j].pc = "run"
    /\ jobs[j].msg.op = OpGet
    /\ MsgKey(jobs[j].msg) # None
    /\ CanRead
    /\ lock.poisoned
    /\ DropSender(j)
    /\ jobs' = SetPc(j, "panicked")
    /\ UNCHANGED <<pool_size, data, lock, wlog, codecVars, serveVars>>

\* Op::Get: cache.get(key) and snd.send(..) under the read guard
GetReply(j) ==
    /\ jobs[j].pc = "rlock"
    /\ Send(j, GetResult(data, MsgKey(jobs[j].msg)[1]))
    /\ jobs' = SetPc(j, "replied")
    /\ UNCHANGED <<pool_size, data, lock, wlog, codecVars, serveVars>>

\* Op::Get: the read guard is dropped at the end of the map closure
GetUnlock(j) ==
    /\ jobs[j].pc = "replied"
    /\ lock' = [lock EXCEPT !.readers = @ \ {j}]
    /\ jobs' = SetPc(j, "done")
    /\ UNCHANGED <<pool_size, data, chan, wlog, codecVars, serveVars>>

\* a Del arm that removes the entry of its key before replying
PassThroughRemoves(j) ==
    /\ jobs[j].pc = "run"
    /\ jobs[j].msg.op \in {OpDel, OpStats}
    /\ Send(j, PassThroughResult(jobs[j].msg))
    /\ jobs' = SetPc(j, "done")
    /\ data' = IF jobs[j].msg.op = OpDel
               THEN [data EXCEPT ![jobs[j].msg.key] = None] ELSE data
    /\ UNCHANGED <<pool_size, lock, wlog, codecVars, serveVars>>

\* Op::Del and Op::Stats: snd.send(message)
PassThrough(j) ==
    /\ jobs[j].pc = "run"
    /\ jobs[j].msg.op \in {OpDel, OpStats}
    /\ Send(j, PassThroughResult(jobs[j].msg))
    /\ jobs' = SetPc(j, "done")
    /\ UNCHANGED <<pool_size, data, lock, wlog, codecVars, serveVars>>

\* the steps a pool thread takes on unit of work j
WorkOn(j) ==
        \/ Start(j)
        \/ SetLock(j)
        \/ SetLockPoisoned(j)
        \/ GetLockPoisoned(j)
        \/ SetInsert(j)
        \/ SetUnlock(j)
        \/ SetSend(j)
        \/ GetPanic(j)
        \/ GetLock(j)
        \/ GetReply(j)
        \/ GetUnlock(j)
        \/ PassThrough(j)

\* the requests given to Cache::process directly
EngineMsgs ==
    {request(OpGet, k, None) : k \in EngineKeys}
    \cup {request(OpSet, <<1>>, Some(p)) : p \in EnginePayloads}
    \cup {request(OpSet, <<2>>, Some(payload(5, <<50>>))),
          request(OpDel, <<1>>, None), request(OpStats, <<>>, None)}

\* a caller invokes Cache::process on the shared engine, up to n times in all
EngineCallUpTo(n) ==
    /\ Len(jobs) < n
    /\ \E m \in EngineMsgs : Process(m, 0)
    /\ UNCHANGED <<codecVars, serveVars>>

EngineCall == EngineCallUpTo(MaxOps)
ConcurrentCall == EngineCallUpTo(MaxFairOps)


----------------------------------------------------------------------------
(* Service pipeline and connection loop: src/src/service.rs *)

Conns == 1..NumConns
ServeIds == {1, 2}

\* the Messages a client puts into request frames
ServeMsgs ==
    {request(OpGet, <<1>>, None),
     request(OpSet, <<1>>, Some(payload(5, <<50>>))),
     request(OpSet, <<1>>, Some(payload(6, <<60>>))),
     request(OpStats, <<>>, None),
     response(OpGet, CodeOk, None)}

\* Stats::get_stats(): the rendering of the running request count
GetStats(n) == <<n>>

\* LogService::call: the request handed to the inner service
LogCall(req) == req

\* a trace step that keeps the response's head and loses its payload
LogResolveDropsPayload(resp) == [resp EXCEPT !.payload = None]

\* LogService::call: the value the and_then closure resolves with
LogResolve(resp) == resp

\* StatService::call: the request handed to the inner service
StatCall(req) == req

\* StatService::call, Op::Stats arm: the rendering taken before the inner call
StatSnapshot(req, n) == IF req.op = OpStats THEN Some(GetStats(n)) ELSE None

\* StatService::call: the value the map / and_then closure resolves with
StatResolve(req, snapshot, resp) ==
    IF req.op = OpStats
    THEN IF resp.shape = "Response" /\ resp.payload # None
         THEN response(OpStats, CodeOk,
                       Some(payload(1, <<resp.payload[1].type_id>> \o snapshot[1])))
         ELSE response(OpStats, CodeOk, Some(payload(1, snapshot[1])))
    ELSE resp

\* every counter increment made for a Stats call as well
StatCountAll(req, n) == n + 1

\* StatService::call: the request counter after the inner call of req resolved
StatCount(req, n) == IF req.op = OpStats THEN n ELSE n + 1

\* the id of the request the reader yields next
ResponseIdOfNext(c) ==
    IF inq[c] # <<>> THEN GetBE(SubSeq(Head(inq[c]).frame, 1, 8)) ELSE cur[c][1].id

\* serve: the req_id the map closure attaches to the response
ResponseId(c) == cur[c][1].id

\* non-Stats calls that have resolved with a response, over all connections
RECURSIVE CountResolved(_, _)
CountResolved(cs, c) ==
    IF c = 0 THEN 0
    ELSE Cardinality({i \in 1..Len(cs[c]) :
                        /\ cs[c][i].req.op # OpStats
                        /\ cs[c][i].outcome # None
                        /\ cs[c][i].outcome[1].ok})
         + CountResolved(cs, c - 1)

\* request ids of the connection's requests that have not been answered yet
InFlightIds(c) ==
    {GetBE(SubSeq(inq[c][i].frame, 1, 8)) : i \in 1..Len(inq[c])}
    \cup (IF cur[c] = None THEN {} ELSE {cur[c][1].id})

\* frames the clients have sent so far
FramesSent(c) ==
    Len(calls[c]) + Len(inq[c]) + (IF failed[c] = None THEN 0 ELSE 1)
RECURSIVE TotalSent(_)
TotalSent(c) == IF c = 0 THEN 0 ELSE FramesSent(c) + TotalSent(c - 1)

\* frames whose op byte, or whose non-zero status byte, is outside the enumerations
BadFrames ==
    {[Encode(1, request(OpGet, <<1>>, None)) EXCEPT ![10] = 9],
     [Encode(1, response(OpGet, CodeOk, None)) EXCEPT ![9] = 7]}

\* the open connections, while the clients have frames left to send.
\* Connections are numbered in the order in which their first frame arrives.
Senders ==
    IF TotalSent(NumConns) < MaxReqs
    THEN {c \in Conns : open[c] /\ (IF c = 1 THEN TRUE ELSE FramesSent(c - 1) > 0)}
    ELSE {}

\* the client's bytes reach the connection's read buffer, where they wait
\* with the result decode has for them when the reader is polled
Receive(c, frame) ==
    /\ inq' = [inq EXCEPT ![c] =
                Append(@, [frame |-> frame, res |-> Decode(frame).res,
                           item |-> Decode(frame).item])]
    /\ UNCHANGED <<cur, out, open, total_requests, calls, flushed, failed,
                   codecVars, engineVars>>

\* a client writes one complete request frame, its id unique among the
\* connection's in-flight requests. A connection's ids are numbered in the
\* order of their first use.
ClientSend(c, id, m) ==
    /\ IF FramesSent(c) = 0 THEN id = 1 ELSE TRUE
    /\ id \notin InFlightIds(c)
    /\ Receive(c, Encode(id, m))

\* a client writes a frame with a byte outside the enumerations
ClientSendBad(c, frame) ==
    Receive(c, frame)

\* a reader that takes the next frame whatever the connection is waiting for
ReaderReadyAlways(c) == TRUE

\* serve: the and_then combinator polls the reader only when it holds no
\* pending deferred response
ReaderReady(c) == cur[c] = None

\* serve: the reader decodes the next request and the and_then closure calls
\* Log(Stat(CacheService)) on it; the deferred response is not ready, so
\* send_all flushes the writer (poll_complete)
Dispatch(c) ==
    /\ open[c]
    /\ ReaderReady(c)
    /\ inq[c] # <<>>
    /\ Head(inq[c]).res = "some"
    /\ LET item == Head(inq[c]).item[1]
           passed == LogCall(item.msg)
       IN  /\ Process(StatCall(passed), c)
           /\ cur' = [cur EXCEPT ![c] =
                        Some([id |-> item.id, req |-> passed, job |-> Len(jobs) + 1,
                              snapshot |-> StatSnapshot(passed, total_requests)])]
           /\ calls' = [calls EXCEPT ![c] =
                        Append(@, [id |-> item.id, req |-> item.msg, passed |-> passed,
                                   frame |-> Head(inq[c]).frame,
                                   seen |-> CountResolved(calls, NumConns),
                                   closed |-> {d \in Conns : ~open[d]},
                                   backlog |-> Len(inq[c]) - 1,
                                   inner |-> None, outcome |-> None])]
    /\ inq' = [inq EXCEPT ![c] = Tail(@)]
    /\ flushed' = [flushed EXCEPT ![c] = Len(out[c])]
    /\ UNCHANGED <<out, open, total_requests, failed, codecVars>>

\* a failed decode that ends every connection's task
DecodeFailClosesAll(c) ==
    /\ open[c]
    /\ ReaderReady(c)
    /\ inq[c] # <<>>
    /\ Head(inq[c]).res = "err"
    /\ failed' = [failed EXCEPT ![c] = Some(Head(inq[c]).frame)]
    /\ inq' = [inq EXCEPT ![c] = Tail(@)]
    /\ open' = [d \in Conns |-> FALSE]
    /\ UNCHANGED <<cur, out, total_requests, calls, flushed, codecVars, engineVars>>

\* serve: decode fails on the next frame; the reader yields the error,
\* send_all returns it without flushing and the connection's task completes
DecodeFail(c) ==
    /\ open[c]
    /\ ReaderReady(c)
    /\ inq[c] # <<>>
    /\ Head(inq[c]).res = "err"
    /\ failed' = [failed EXCEPT ![c] = Some(Head(inq[c]).frame)]
    /\ inq' = [inq EXCEPT ![c] = Tail(@)]
    /\ open' = [open EXCEPT ![c] = FALSE]
    /\ UNCHANGED <<cur, out, total_requests, calls, flushed, codecVars, engineVars>>

\* the oneshot receiver yields the engine's message: the Stat and Log closures
\* run on the event loop and the writer is handed (req_id, resp) (start_send).
\* send_all then polls the reader again: with nothing more received it
\* flushes the writer; with a frame received, Dispatch or DecodeFail follows
Resolve(c) ==
    /\ open[c]
    /\ cur[c] # None
    /\ chan[cur[c][1].job].tx = "sent"
    /\ LET call == cur[c][1]
           inner == StatResolve(call.req, call.snapshot, chan[call.job].val[1])
           resp == LogResolve(inner)
       IN  /\ total_requests' = StatCount(call.req, total_requests)
           /\ out' = [out EXCEPT ![c] = Append(@, [id |-> ResponseId(c), msg |-> resp])]
           /\ calls' = [calls EXCEPT ![c][Len(calls[c])] =
                        [@ EXCEPT !.inner = Some([ok |-> TRUE, val |-> Some(inner)]),
                                  !.outcome = Some([ok |-> TRUE, val |-> Some(resp)])]]
    /\ cur' = [cur EXCEPT ![c] = None]
    /\ flushed' = [flushed EXCEPT ![c] = IF inq[c] = <<>> THEN Len(out[c]) + 1 ELSE @]
    /\ UNCHANGED <<inq, open, failed, codecVars, engineVars>>

\* the oneshot sender was dropped unused: the receiver yields Canceled, which
\* CacheService maps to an io::Error; the stream fails, send_all ends and the
\* connection's task completes
ResolveErr(c) ==
    /\ open[c]
    /\ cur[c] # None
    /\ chan[cur[c][1].job].tx = "dropped"
    /\ calls' = [calls EXCEPT ![c][Len(calls[c])] =
                    [@ EXCEPT !.inner = Some([ok |-> FALSE, val |-> None]),
                              !.outcome = Some([ok |-> FALSE, val |-> None])]]
    /\ cur' = [cur EXCEPT ![c] = None]
    /\ open' = [open EXCEPT ![c] = FALSE]
    /\ UNCHANGED <<inq, out, total_requests, flushed, failed, codecVars, engineVars>>

----------------------------------------------------------------------------
(* Specifications *)

ServeIdle ==
    /\ inq = [c \in 1..NumConns |-> <<>>]
    /\ cur = [c \in 1..NumConns |-> None]
    /\ out = [c \in 1..NumConns |-> <<>>]
    /\ open = [c \in 1..NumConns |-> TRUE]
    /\ total_requests = 0
    /\ calls = [c \in 1..NumConns |-> <<>>]
    /\ flushed = [c \in 1..NumConns |-> 0]
    /\ failed = [c \in 1..NumConns |-> None]

EngineIdle ==
    /\ pool_size = 1
    /\ data = [k \in EngineKeys |-> None]
    /\ lock = [writer |-> 0, readers |-> {}, poisoned |-> FALSE]
    /\ jobs = <<>>
    /\ chan = <<>>
    /\ wlog = <<>>

CodecInit == CodecStart /\ EngineIdle /\ ServeIdle
CodecNext == FeedByte \/ FeedFrame \/ FeedAll \/ DecodeAgain
CodecSpec == CodecInit /\ [][CodecNext]_vars

\* the decoder fed by a peer that chooses the header fields freely
RawInit == CodecIdle /\ EngineIdle /\ ServeIdle
RawNext ==
    \/ \E h \in RawHeaders : RawHeader(h)
    \/ \E x \in {0, 1} : RawByte(x)
    \/ DecodeAgain
RawSpec == RawInit /\ [][RawNext]_vars

EngineInit == CodecIdle /\ EngineStart /\ ServeIdle
EngineNext ==
    \/ EngineCall
    \/ \E j \in JobIds : Start(j)
    \/ \E j \in JobIds : SetLock(j)
    \/ \E j \in JobIds : SetInsert(j)
    \/ \E j \in JobIds : SetUnlock(j)
    \/ \E j \in JobIds : SetSend(j)
    \/ \E j \in JobIds : GetLock(j)
    \/ \E j \in JobIds : GetReply(j)
    \/ \E j \in JobIds : GetUnlock(j)
    \/ \E j \in JobIds : PassThrough(j)
EngineSpec == EngineInit /\ [][EngineNext]_vars

\* the engine with its pool threads scheduled fairly: each keeps executing
\* the unit of work it was given
FairEngineNext ==
    \/ ConcurrentCall
    \/ \E j \in JobIds : Start(j)
    \/ \E j \in JobIds : SetLock(j)
    \/ \E j \in JobIds : SetInsert(j)
    \/ \E j \in JobIds : SetUnlock(j)
    \/ \E j \in JobIds : SetSend(j)
    \/ \E j \in JobIds : GetLock(j)
    \/ \E j \in JobIds : GetReply(j)
    \/ \E j \in JobIds : GetUnlock(j)
    \/ \E j \in JobIds : PassThrough(j)
FairEngineSpec ==
    /\ EngineInit
    /\ [][FairEngineNext]_vars
    /\ \A j \in 1..MaxFairOps : WF_vars(j \in JobIds /\ WorkOn(j))

\* the engine when the closure of a Set may panic under the write guard
PoisonNext ==
    \/ EngineNext
    \/ \E j \in JobIds : SetAbort(j)
    \/ \E j \in JobIds : SetLockPoisoned(j)
    \/ \E j \in JobIds : GetLockPoisoned(j)
PoisonSpec == EngineInit /\ [][PoisonNext]_vars

\* the engine when callers may drop the receiving end of a handle
CancelNext ==
    \/ EngineNext
    \/ \E j \in JobIds : DropReceiver(j)
CancelSpec == EngineInit /\ [][CancelNext]_vars

ServeInit == CodecIdle /\ EngineStart /\ pool_size = MaxPoolSize /\ ServeIdle
ServeNext ==
    \/ \E c \in Senders, id \in ServeIds, m \in ServeMsgs : ClientSend(c, id, m)
    \/ \E c \in Senders, frame \in BadFrames : ClientSendBad(c, frame)
    \/ \E c \in Conns : Dispatch(c)
    \/ \E c \in Conns : DecodeFail(c)
    \/ \E c \in Conns : Resolve(c)
    \/ \E c \in Conns : ResolveErr(c)
    \/ \E j \in JobIds : Start(j)
    \/ \E j \in JobIds : SetLock(j)
    \/ \E j \in JobIds : SetInsert(j)
    \/ \E j \in JobIds : SetUnlock(j)
    \/ \E j \in JobIds : SetSend(j)
    \/ \E j \in JobIds : GetPanic(j)
    \/ \E j \in JobIds : GetLock(j)
    \/ \E j \in JobIds : GetReply(j)
    \/ \E j \in JobIds : GetUnlock(j)
    \/ \E j \in JobIds : PassThrough(j)
ServeSpec == ServeInit /\ [][ServeNext]_vars

----------------------------------------------------------------------------
(* Claims *)


\* the encoding of the i-th frame of the stream
FrameBytes(i) == Encode(frames[i].id, frames[i].msg)

RECURSIVE FrameStart(_)
\* the offset in the stream at which the i-th frame starts
FrameStart(i) == IF i = 1 THEN 0 ELSE FrameStart(i - 1) + Len(FrameBytes(i - 1))

\* the stream offset of the first byte of the buffer the last decode call saw
CallOffset == fed - Len(lastCall.before)

(* C1: decode on a buffer holding exactly encode(r, m) returns (r, m) and  *)
(* leaves the buffer empty, for every id r and every Message m, payload    *)
(* absent, present and non-empty, or present and empty.                    *)
RoundTrip ==
    (fed = Len(FrameBytes(1)) /\ lastCall.before = FrameBytes(1))
        => /\ lastCall.res = "some"
           /\ lastCall.item = Some(frames[1])
           /\ buf = <<>>

(* C2: a decode call made while fewer bytes than the frame's total length  *)
(* are buffered returns "needs more data" and leaves the buffer unchanged; *)
(* the first call with the full frame buffered returns exactly that frame, *)
(* equal to (r, m), and removes exactly its bytes, leaving the following   *)
(* bytes in the buffer.                                                    *)
PartialFrameTolerance ==
    lastCall.res # "init" =>
        \E k \in 1..(Len(frames) + 1) :
            /\ FrameStart(k) = CallOffset
            /\ IF k > Len(frames) \/ Len(lastCall.before) < Len(FrameBytes(k))
               THEN lastCall.res = "none" /\ buf = lastCall.before
               ELSE /\ lastCall.res = "some"
                    /\ lastCall.item = Some(frames[k])
                    /\ buf = SubSeq(lastCall.before, Len(FrameBytes(k)) + 1,
                                    Len(lastCall.before))


\* unit of work j is a Set(K, P) / a Get(K) taken from a Request
IsSet(j) == jobs[j].msg.shape = "Request" /\ jobs[j].msg.op = OpSet
IsGet(j) == jobs[j].msg.shape = "Request" /\ jobs[j].msg.op = OpGet

\* the handle of unit of work j was resolved with a message
Resolved(j) == chan[j].tx = "sent"

\* every operation was dispatched after the operations before it had resolved
Sequential == \A j \in JobIds : ~jobs[j].overlap

\* the Sets to the key of j that were dispatched before j
PriorSets(j) == {i \in 1..(j - 1) : IsSet(i) /\ jobs[i].msg.key = jobs[j].msg.key}

Latest(S) == CHOOSE i \in S : \A k \in S : k <= i

(* C3: with each operation dispatched after the previous one resolved,   *)
(* Get(K) resolves with the type_id and bytes of the most recent Set(K), *)
(* whatever Gets, Dels, Stats or Sets to other keys came between, and    *)
(* with no payload and key K when no Set(K) occurred.                    *)
CacheMatchesReference ==
    Sequential =>
        \A j \in JobIds :
            (IsGet(j) /\ Resolved(j)) =>
                IF PriorSets(j) = {}
                THEN /\ chan[j].val[1].payload = None
                     /\ chan[j].val[1].key = jobs[j].msg.key
                ELSE chan[j].val[1].payload = jobs[Latest(PriorSets(j))].msg.payload

\* a Get answered after two Sets to its key, the second replacing the first
CacheMatchesReferenceWitness ==
    /\ Sequential
    /\ \E j \in JobIds :
        /\ IsGet(j) /\ Resolved(j)
        /\ Cardinality(PriorSets(j)) >= 2
        /\ \E i \in PriorSets(j) : jobs[i].msg.payload # jobs[Latest(PriorSets(j))].msg.payload
        /\ chan[j].val[1].payload = jobs[Latest(PriorSets(j))].msg.payload

(* C4: the completion handle of every message passed to Cache::process is *)
(* resolved exactly once and the value it is resolved with is a Response. *)
ExactlyOnceResponse ==
    \A j \in JobIds :
        jobs[j].pc \in {"done", "panicked"} =>
            /\ chan[j].sends = 1
            /\ chan[j].val # None
            /\ chan[j].val[1].shape = "Response"

\* a Get observes, and the map stores, only what a Set to that same key wrote
NoCrossKeyInterference ==
    /\ \A j \in JobIds :
        (IsGet(j) /\ Resolved(j)) =>
            \/ chan[j].val[1] = GetMissReply(jobs[j].msg.key)
            \/ \E i \in JobIds : /\ IsSet(i)
                                 /\ jobs[i].msg.key = jobs[j].msg.key
                                 /\ chan[j].val[1] = response(OpGet, CodeOk, jobs[i].msg.payload)
    /\ \A k \in EngineKeys :
        \/ data[k] = None
        \/ \E i \in JobIds : /\ IsSet(i)
                             /\ jobs[i].msg.key = k
                             /\ jobs[i].pc \notin {"queued", "run", "wlock"}
                             /\ data[k] = Some(Consume(jobs[i].msg)[2])

(* C5: Set and Get operations dispatched concurrently, on distinct keys    *)
(* included and with fewer pool threads than operations, all resolve their *)
(* handles, and what each returns and what the map stores for a key come   *)
(* from operations on that key alone.                                      *)
DisjointKeyConcurrency ==
    /\ []NoCrossKeyInterference
    /\ \A j \in 1..MaxFairOps :
        (j \in JobIds /\ (IsSet(j) \/ IsGet(j))) ~> (j \in JobIds /\ Resolved(j))

\* two operations on distinct keys, the second dispatched while the first was
\* unresolved and waiting for the single pool thread, have both resolved
DisjointKeyConcurrencyWitness ==
    /\ pool_size = 1
    /\ \E i, j \in JobIds :
        /\ i < j
        /\ IsSet(i) /\ IsGet(j)
        /\ jobs[i].msg.key # jobs[j].msg.key
        /\ jobs[j].overlap
        /\ Resolved(i) /\ Resolved(j)
        /\ data[jobs[i].msg.key] = Some(Consume(jobs[i].msg)[2])
        /\ chan[j].val[1] = GetMissReply(jobs[j].msg.key)

\* units of work inside the exclusive / the shared section
InWrite == {j \in JobIds : jobs[j].pc \in {"wlock", "inserted"}}
InRead == {j \in JobIds : jobs[j].pc \in {"rlock", "replied"}}

\* the Sets to key k, in the order they acquired exclusive access
SetsOn(k) == {i \in JobIds : IsSet(i) /\ jobs[i].msg.key = k}
LastWriter(k) ==
    CHOOSE n \in 1..Len(wlog) :
        /\ jobs[wlog[n]].msg.key = k
        /\ \A m \in (n + 1)..Len(wlog) : jobs[wlog[m]].msg.key # k

(* C6: a Set holding exclusive access excludes every other Set and every  *)
(* Get while Gets may share; once the Sets to a key have completed the    *)
(* entry is the whole (type_id, bytes) pair of the Set that acquired      *)
(* exclusive access last, and a Get never sees a pair no Set wrote.       *)
LockDisciplineLastWriterWins ==
    /\ Cardinality(InWrite) <= 1
    /\ InWrite # {} => InRead = {}
    /\ \A k \in EngineKeys :
        (SetsOn(k) # {} /\ \A i \in SetsOn(k) : jobs[i].pc \in {"unlocked", "done"})
            => data[k] = Some(Consume(jobs[wlog[LastWriter(k)]].msg)[2])
    /\ \A j \in JobIds :
        (IsGet(j) /\ Resolved(j) /\ chan[j].val[1].payload # None)
            => \E i \in SetsOn(jobs[j].msg.key) :
                    chan[j].val[1].payload = jobs[i].msg.payload

\* two concurrent Sets to one key have completed, the one dispatched first
\* having acquired exclusive access last, and its pair is the entry
LockDisciplineLastWriterWinsWitness ==
    \E i, j \in JobIds :
        /\ i < j
        /\ IsSet(i) /\ IsSet(j)
        /\ jobs[i].msg.key = jobs[j].msg.key
        /\ jobs[i].msg.payload # jobs[j].msg.payload
        /\ jobs[i].pc = "done" /\ jobs[j].pc = "done"
        /\ \E n, m \in 1..Len(wlog) : n < m /\ wlog[n] = j /\ wlog[m] = i
        /\ data[jobs[i].msg.key] = Some(Consume(jobs[i].msg)[2])

\* the calls of connection c that have resolved with a response
Answered(c) == {i \in 1..Len(calls[c]) : calls[c][i].outcome # None /\ calls[c][i].outcome[1].ok}

\* the i-th item handed to the writer of c carries the id of the i-th request
\* decoded on c and the response the service call on that request produced
Correlated ==
    \A c \in Conns :
        /\ Len(out[c]) = Cardinality(Answered(c))
        /\ \A i \in 1..Len(out[c]) :
            /\ i \in Answered(c)
            /\ out[c][i].id = calls[c][i].id
            /\ out[c][i].msg = calls[c][i].outcome[1].val[1]

(* C7 as stated: each response frame carries the id of the request whose  *)
(* Message produced it, no response carries an id that was not received,  *)
(* and no request id is answered twice.                                   *)
RequestIdAnsweredOnce ==
    /\ Correlated
    /\ \A c \in Conns : \A i, j \in 1..Len(out[c]) : i # j => out[c][i].id # out[c][j].id

(* C7 as amended: each response frame carries the id of the request whose *)
(* Message produced it, no response carries an id that was not received,  *)
(* and no request frame is answered twice: an id is written as often as   *)
(* answered request frames carried it, which is twice when the client     *)
(* uses an id again after its first response.                             *)
RequestIdCorrelation ==
    /\ Correlated
    /\ \A c \in Conns : \A id \in ServeIds :
        Cardinality({i \in 1..Len(out[c]) : out[c][i].id = id})
            = Cardinality({i \in Answered(c) : calls[c][i].id = id})

\* a connection has answered two requests that carried the same id
RequestIdCorrelationWitness ==
    \E c \in Conns :
        /\ Len(out[c]) >= 2
        /\ out[c][1].id = out[c][2].id
        /\ calls[c][1].req # calls[c][2].req

(* C8: with a request of a connection awaiting its deferred response and  *)
(* a further complete request frame received on that connection, the      *)
(* further request can be decoded and dispatched to the service.          *)
PipeliningPossible ==
    \A c \in Conns :
        (open[c] /\ cur[c] # None /\ ~Settled(cur[c][1].job) /\ inq[c] # <<>>)
            => ENABLED Dispatch(c)

JobsOf(c) == {j \in JobIds : jobs[j].conn = c}

(* C10: the Log decorator hands each request unchanged to the inner       *)
(* service exactly once and resolves with the inner service's outcome,    *)
(* the same response or the same error, one completion per call.          *)
LogTransparent ==
    \A c \in Conns :
        /\ Cardinality(JobsOf(c)) = Len(calls[c])
        /\ cur[c] # None => jobs[cur[c][1].job].msg = calls[c][Len(calls[c])].req
        /\ Len(out[c]) = Cardinality(Answered(c))
        /\ \A i \in 1..Len(calls[c]) :
            /\ calls[c][i].passed = calls[c][i].req
            /\ calls[c][i].outcome = calls[c][i].inner
            /\ i \in Answered(c) => out[c][i].msg = calls[c][i].inner[1].val[1]

\* a response with a payload has passed through the decorator on one
\* connection and an error of the inner service on another
LogTransparentWitness ==
    /\ \E c \in Conns : \E i \in Answered(c) :
        /\ calls[c][i].inner[1].val[1].payload # None
        /\ out[c][i].msg = calls[c][i].inner[1].val[1]
        /\ out[c][i].msg = response(OpStats, CodeOk, Some(payload(1, GetStats(0))))
    /\ \E c \in Conns : \E i \in 1..Len(calls[c]) :
        /\ calls[c][i].outcome # None
        /\ ~calls[c][i].outcome[1].ok
        /\ ~open[c]

\* unit of work j is a Del whose closure has run
IsDoneDel(j) == jobs[j].msg.op = OpDel /\ jobs[j].pc = "done"

\* the Sets to key k dispatched before j
SetsBefore(j, k) == {i \in 1..(j - 1) : IsSet(i) /\ jobs[i].msg.key = k}

\* the entry the Sets before j have left for key k
EntryBefore(j, k) ==
    IF SetsBefore(j, k) = {} THEN None
    ELSE Some(Consume(jobs[Latest(SetsBefore(j, k))].msg)[2])

(* C11: a Del resolves its handle once, with the original message, and    *)
(* has no effect on the map: after it the map holds what the Sets before  *)
(* it left (nothing for a key never set), and a later Get of its key      *)
(* returns the payload of the Set before the Del.                         *)
DelWithoutEffect ==
    \A j \in JobIds :
        IsDoneDel(j) =>
            /\ chan[j].sends = 1
            /\ chan[j].val = Some(jobs[j].msg)
            /\ (Sequential /\ j = Len(jobs)) =>
                    \A k \in EngineKeys : data[k] = EntryBefore(j, k)
            /\ Sequential =>
                    \A g \in (j + 1)..Len(jobs) :
                        (/\ IsGet(g) /\ Resolved(g)
                         /\ jobs[g].msg.key = jobs[j].msg.key
                         /\ SetsBefore(g, jobs[j].msg.key) = SetsBefore(j, jobs[j].msg.key))
                            => chan[g].val[1] =
                                   GetResult([k \in EngineKeys |-> EntryBefore(j, k)],
                                             jobs[j].msg.key)

\* Set(K, P), Del(K), Get(K), each dispatched after the one before had
\* resolved: the Get has returned P
DelWithoutEffectWitness ==
    /\ Sequential
    /\ Len(jobs) = 3
    /\ IsSet(1) /\ IsDoneDel(2) /\ IsGet(3) /\ Resolved(3)
    /\ jobs[1].msg.key = jobs[2].msg.key /\ jobs[2].msg.key = jobs[3].msg.key
    /\ chan[2].val = Some(jobs[2].msg)
    /\ chan[3].val[1] = response(OpGet, CodeOk, jobs[1].msg.payload)

\* the key and the payload bytes of the Message of the i-th frame
FrameKey(i) == UnwrapOr(MsgKey(frames[i].msg), <<>>)
FramePayload(i) == UnwrapOr(MsgPayloadData(frames[i].msg), <<>>)

\* 22 + k + p + (4 if p > 0 else 0) for the i-th frame
FrameLen(i) ==
    22 + Len(FrameKey(i)) + Len(FramePayload(i))
       + (IF Len(FramePayload(i)) > 0 THEN 4 ELSE 0)

\* the bytes of the i-th frame that follow its key
AfterKey(i) ==
    SubSeq(FrameBytes(i), 22 + Len(FrameKey(i)) + 1, Len(FrameBytes(i)))

\* the frame that starts where the buffer of the last decode call started
FrameAtCall == CHOOSE k \in 1..Len(frames) : FrameStart(k) = CallOffset

(* C12: encode appends exactly 22 + k + p + (4 if p > 0 else 0) bytes and *)
(* writes the type_id field if and only if p > 0, so a frame with an      *)
(* absent or empty payload is 4 bytes shorter, beyond the payload bytes,  *)
(* than the same Message with a non-empty payload; decode computes the    *)
(* same total length from the header and removes that many bytes.         *)
FrameLength ==
    /\ \A i \in 1..Len(frames) :
        /\ Len(FrameBytes(i)) = FrameLen(i)
        /\ AfterKey(i) =
              IF Len(FramePayload(i)) > 0
              THEN PutBE(frames[i].msg.payload[1].type_id, 4) \o FramePayload(i)
              ELSE <<>>
        /\ DecodeMsgLen(SubSeq(FrameBytes(i), 11, 18), ZeroExt(SubSeq(FrameBytes(i), 19, 22)))
              = [val |-> Usize(FrameLen(i)), overflow |-> FALSE]
    /\ \A i, j \in 1..Len(frames) :
        (/\ frames[i].id = frames[j].id
         /\ [frames[i].msg EXCEPT !.payload = None] = [frames[j].msg EXCEPT !.payload = None]
         /\ FramePayload(i) = <<>> /\ FramePayload(j) # <<>>)
            => Len(FrameBytes(j)) - Len(FrameBytes(i)) = 4 + Len(FramePayload(j))
    /\ lastCall.res = "some" =>
        Len(lastCall.before) - Len(buf) = FrameLen(FrameAtCall)

\* a Message with a present but empty payload and the same Message with a
\* non-empty payload have both been encoded, fed and decoded
FrameLengthWitness ==
    /\ Len(frames) = 2
    /\ Len(decoded) = 2
    /\ frames[1].id = frames[2].id
    /\ frames[1].msg.payload = Some(payload(3, <<>>))
    /\ frames[2].msg = [frames[1].msg EXCEPT !.payload = Some(payload(260, <<9, 8>>))]
    /\ Len(FrameBytes(1)) = 23
    /\ Len(FrameBytes(2)) = 29

(* C13: after a unit of work aborted while holding exclusive access, a    *)
(* later Set or Get whose lock acquisition fails for that reason does not *)
(* fault: its handle is resolved, with a response, and not dropped.       *)
PoisonedLockReported ==
    \A j \in JobIds :
        (/\ lock.poisoned
         /\ IsSet(j) \/ IsGet(j)
         /\ jobs[j].pc \in {"done", "panicked"})
            => /\ jobs[j].pc = "done"
               /\ chan[j].tx = "sent"
               /\ chan[j].val[1].shape = "Response"

\* the frame's op byte, or its non-zero status byte, is outside the enumerations
OutOfEnum(frame) == frame[10] \notin Ops \/ (frame[9] # 0 /\ frame[9] \notin Codes)

\* the last service call of connection c failed
LastCallFailed(c) ==
    /\ calls[c] # <<>>
    /\ calls[c][Len(calls[c])].outcome # None
    /\ ~calls[c][Len(calls[c])].outcome[1].ok

(* C14: decode fails on exactly the frames whose op byte or non-zero      *)
(* status byte is outside the enumerations, and a request that reaches    *)
(* the service carries the op and status of its frame; the failure closes *)
(* the connection the frame arrived on, with no service call and no       *)
(* response for that frame; a connection is closed only by a failure of   *)
(* its own, and an open connection with a request received takes it.      *)
FramingErrorsScoped ==
    \A c \in Conns :
        /\ \A i \in 1..Len(inq[c]) :
            OutOfEnum(inq[c][i].frame) <=> inq[c][i].res = "err"
        /\ \A i \in 1..Len(calls[c]) :
            /\ ~OutOfEnum(calls[c][i].frame)
            /\ calls[c][i].req.op = calls[c][i].frame[10]
            /\ calls[c][i].req.code = calls[c][i].frame[9]
        /\ failed[c] # None =>
            /\ OutOfEnum(failed[c][1])
            /\ ~open[c]
            /\ cur[c] = None
            /\ Cardinality(JobsOf(c)) = Len(calls[c])
            /\ Len(out[c]) = Cardinality(Answered(c))
        /\ ~open[c] => (failed[c] # None \/ LastCallFailed(c))
        /\ (open[c] /\ cur[c] = None /\ inq[c] # <<>>) =>
            IF OutOfEnum(Head(inq[c]).frame)
            THEN ENABLED DecodeFail(c)
            ELSE ENABLED Dispatch(c)

\* a request dispatched on one connection after another connection was
\* closed by a framing error has been answered
FramingErrorsScopedWitness ==
    \E c, d \in Conns :
        /\ c # d
        /\ failed[c] # None
        /\ out[c] = <<>>
        /\ \E i \in Answered(d) :
            /\ c \in calls[d][i].closed
            /\ flushed[d] >= i

(* C15: a Stats call through the Stats decorator dispatches no unit of    *)
(* work to the engine and has its response at once, whatever cache work   *)
(* is outstanding.                                                        *)
StatsBypass ==
    \A c \in Conns :
        /\ \A j \in JobsOf(c) : jobs[j].msg.op # OpStats
        /\ \A i \in 1..Len(calls[c]) :
            calls[c][i].req.op = OpStats => calls[c][i].outcome # None

\* the outcome of the i-th call of connection c is one of: still awaited by
\* the running connection; a response frame with the request's id, written to
\* the socket or held by the writer of the running connection; an error that
\* closed the connection
OneOutcome(c, i) ==
    IF calls[c][i].outcome = None
    THEN open[c] /\ cur[c] # None /\ i = Len(calls[c])
    ELSE IF calls[c][i].outcome[1].ok
         THEN /\ i <= Len(out[c])
              /\ out[c][i].id = calls[c][i].id
              /\ i <= flushed[c] \/ open[c]
         ELSE ~open[c]

(* C16: every request passed to the base cache service ends with a        *)
(* response frame carrying its id written to its connection, or with an   *)
(* internal error that closes the connection; none is dropped.            *)
NoSilentDrop == \A c \in Conns : \A i \in 1..Len(calls[c]) : OneOutcome(c, i)

\* the same, on the connections no framing error has closed
NoSilentDropWithoutFramingError ==
    \A c \in Conns : failed[c] = None => \A i \in 1..Len(calls[c]) : OneOutcome(c, i)

(* C17: an operation whose receiving end was dropped before it resolved   *)
(* runs to completion without a fault in its unit of work, a Set among    *)
(* them having stored its entry.                                          *)
NoCancellation ==
    \A j \in JobIds :
        (chan[j].rx = "dropped" /\ jobs[j].pc \in {"done", "panicked"}) =>
            /\ jobs[j].pc = "done"
            /\ IsSet(j) => data[jobs[j].msg.key] # None

\* the same for the operations that are not Sets, and the entry of a Set
NoCancellationBesidesSetFault ==
    \A j \in JobIds :
        (chan[j].rx = "dropped" /\ jobs[j].pc \in {"done", "panicked"}) =>
            /\ ~IsSet(j) => jobs[j].pc = "done"
            /\ IsSet(j) => data[jobs[j].msg.key] # None

\* 22 + key_len + payload_len + (4 if payload_len > 0 else 0) for the header
\* at the start of b, as an exact 10-byte big-endian number
ExactMsgLen(b) ==
    LET p == <<0, 0>> \o SubSeq(b, 11, 18)
        k == <<0, 0, 0, 0, 0, 0>> \o SubSeq(b, 19, 22)
        fixed == IF SubSeq(b, 11, 18) = Usize(0) THEN 22 ELSE 26
    IN  Tail(AddBE(Tail(AddBE(p, k, 0)), PutBE(fixed, 10), 0))

(* C18: for every header, the total length decode computes is the exact   *)
(* value 22 + key_len + payload_len + (4 if payload_len > 0 else 0),      *)
(* decode removes a frame only when that many bytes are buffered, and it  *)
(* never reads past the buffered bytes.                                   *)
LengthArithmeticExact ==
    (lastCall.res # "init" /\ Len(lastCall.before) >= HEADER_LEN) =>
        LET exact == ExactMsgLen(lastCall.before)
            computed == DecodeMsgLen(SubSeq(lastCall.before, 11, 18),
                                     ZeroExt(SubSeq(lastCall.before, 19, 22)))
        IN  /\ <<0, 0>> \o computed.val = exact
            /\ lastCall.res # "panic"
            /\ lastCall.res = "some" =>
                /\ Fits(Tail(Tail(exact)))
                /\ GetBE(exact) <= Len(lastCall.before)
                /\ Len(lastCall.before) - Len(buf) = GetBE(exact)
            /\ lastCall.res = "none" =>
                /\ buf = lastCall.before
                /\ Fits(Tail(Tail(exact))) => Len(lastCall.before) < GetBE(exact)

\* the same for the headers whose exact total length is below 2^64
LengthArithmeticExactBelowOverflow ==
    (/\ lastCall.res # "init"
     /\ Len(lastCall.before) >= HEADER_LEN
     /\ SubSeq(ExactMsgLen(lastCall.before), 1, 2) = <<0, 0>>)
        => LengthArithmeticExact

\* the place of Set i in the order in which exclusive access was acquired
WPos(i) == CHOOSE n \in 1..Len(wlog) : wlog[n] = i

\* the Sets to the key of j whose handles had been resolved when j was dispatched
ResolvedSetsBefore(j) == jobs[j].settled

Awaiting(c) == {i \in 1..Len(calls[c]) : calls[c][i].outcome = None}

ResponseOrder ==
    \A c \in Conns :
        /\ Cardinality(Awaiting(c)) <= 1
        /\ Awaiting(c) \subseteq {Len(calls[c])}
        /\ (cur[c] # None) <=> (Awaiting(c) # {})
        /\ Len(out[c]) <= Len(calls[c])
        /\ \A i \in 1..Len(out[c]) :
              /\ out[c][i].id = calls[c][i].id
              /\ calls[c][i].outcome = Some([ok |-> TRUE, val |-> Some(out[c][i].msg)])

\* two requests were pipelined on one connection (the second was received
\* before the first was dispatched) and both responses have been written
ResponseOrderWitness ==
    \E c \in Conns :
        /\ Len(out[c]) = 2
        /\ calls[c][1].backlog >= 1
        /\ out[c][1].id # out[c][2].id
        /\ out[c][1].msg # out[c][2].msg

====
